---- MODULE Spec2Model ----
(***************************************************************************)
(* Model of LegalChunkingStrategy (src/src/s3_LegalChunkingStrategy.py):   *)
(* the token counter, the three splitters (split_by_tokens,                *)
(* _split_by_paragraph, split_by_article), the assembling loop of          *)
(* process_from_unified_json and apply_overlap.                            *)
(*                                                                         *)
(* A text is a sequence of characters.  The characters stand for classes   *)
(* of the characters the code's regular expressions and the tokenizer      *)
(* tell apart:                                                             *)
(*   "J" = 제, "C" = 조, "U" = 의, "x" = any other letter,                 *)
(*   "1" = a decimal digit, "o" = a circled numeral (① .. ⑳),              *)
(*   "." = the period, "[" and "]" = brackets, " " = space, "\n" = newline *)
(***************************************************************************)
EXTENDS Integers, Sequences, FiniteSets, TLC

VARIABLES
    text,            \* SpecSplit: the text handed to a splitter
    max_tokens,      \* SpecSplit: the max_tokens argument
    call,            \* SpecSplit: which splitter was called, with its arguments
    out,             \* SpecSplit: what the call returned: [raised, chunks]
    chunk_size,      \* self.chunk_size
    overlap,         \* self.overlap
    block,           \* the block of the current loop iteration (line 210)
    idx,             \* number of blocks read so far (line 210)
    all_chunks,      \* all_chunks (line 205)
    chunk_counter,   \* chunk_counter (line 206)
    final_chunks,    \* final_chunks (line 238), the value returned
    pc               \* position in process_from_unified_json

vars == <<text, max_tokens, call, out, chunk_size, overlap, block, idx,
          all_chunks, chunk_counter, final_chunks, pc>>

----------------------------------------------------------------------------
(* Bounds of the model                                                     *)

MaxLexemes == 3      \* a SpecSplit text is at most this many lexemes
MaxBudget == 8       \* SpecSplit: max_tokens ranges over 0 .. MaxBudget
MaxChunkSize == 4    \* Spec: chunk_size ranges over 0 .. MaxChunkSize
MaxOverlap == 2      \* overlap ranges over 0 .. MaxOverlap
MaxBlocks == 2       \* a run reads at most this many text blocks

----------------------------------------------------------------------------
(* Characters and Python string helpers                                    *)

IsLetter(c) == c \in {"J", "C", "U", "x"}
IsDecimal(c) == c = "1"                  \* Python's \d
IsCircled(c) == c = "o"                  \* [①-⑳]
IsNumber(c) == IsDecimal(c) \/ IsCircled(c)   \* the tokenizer's \p{N}
IsNewline(c) == c = "\n"
IsSpace(c) == c = " " \/ IsNewline(c)    \* \s
IsPunct(c) == ~IsLetter(c) /\ ~IsNumber(c) /\ ~IsSpace(c)

Min(a, b) == IF a < b THEN a ELSE b

\* s[from .. to], empty when from > to
Slice(s, from, to) == IF from > to THEN <<>> ELSE SubSeq(s, from, to)

RECURSIVE LStrip(_)
LStrip(s) == IF s # <<>> /\ IsSpace(Head(s)) THEN LStrip(Tail(s)) ELSE s

RECURSIVE RStrip(_)
RStrip(s) ==
    IF s # <<>> /\ IsSpace(s[Len(s)]) THEN RStrip(SubSeq(s, 1, Len(s) - 1)) ELSE s

\* str.strip()
Strip(s) == RStrip(LStrip(s))

\* number of consecutive characters from position p on that are in class cls
RECURSIVE Run(_, _, _)
Run(s, p, cls) ==
    IF p > Len(s) THEN 0
    ELSE LET c == s[p]
             inCls == IF cls = "L" THEN IsLetter(c)
                      ELSE IF cls = "N" THEN IsNumber(c)
                      ELSE IF cls = "D" THEN IsDecimal(c)
                      ELSE IF cls = "S" THEN IsSpace(c)
                      ELSE IF cls = "NL" THEN IsNewline(c)
                      ELSE IsPunct(c)
         IN IF inCls THEN 1 + Run(s, p + 1, cls) ELSE 0

----------------------------------------------------------------------------
(* The tokenizer (self.encoder).  encoding_for_model("gpt-4") is the       *)
(* cl100k_base encoding: the text is first cut into pieces by the pattern  *)
(*   [^\r\n\p{L}\p{N}]?\p{L}+ | \p{N}{1,3} | ?[^\s\p{L}\p{N}]+[\r\n]*      *)
(*   | \s*[\r\n]+ | \s+(?!\S) | \s+                                        *)
(* and each piece is then encoded on its own.  PieceAt follows that       *)
(* pattern; within a piece of letters every letter is one token (the       *)
(* leading non-letter, if any, belongs to the first letter's token), every *)
(* other piece is one token.  A token is the text it decodes to.           *)

\* position of the last newline in s[p .. p+n-1], 0 if there is none
RECURSIVE LastNewline(_, _, _)
LastNewline(s, p, n) ==
    IF n = 0 THEN 0
    ELSE IF IsNewline(s[p + n - 1]) THEN p + n - 1
    ELSE LastNewline(s, p, n - 1)

\* the piece at p when s[p] starts a run of w whitespace characters whose last
\* newline is at nl (0: none):  \s*[\r\n]+ | \s+(?!\S) | \s+
SpacePiece(s, p, w, nl) ==
    IF nl > 0 THEN [kind |-> "S", len |-> nl - p + 1]
    ELSE IF p + w <= Len(s) /\ w >= 2 THEN [kind |-> "S", len |-> w - 1]
    ELSE [kind |-> "S", len |-> w]

\* the piece at p that is lead leading characters, n punctuation characters
\* and the newlines after them:   ?[^\s\p{L}\p{N}]+[\r\n]*
PunctPiece(s, p, lead, n) ==
    [kind |-> "P", len |-> lead + n + Run(s, p + lead + n, "NL")]

\* [kind, len] of the piece of s that starts at position p (p <= Len(s))
PieceAt(s, p) ==
    IF IsLetter(s[p]) THEN [kind |-> "L", len |-> Run(s, p, "L")]
    ELSE IF ~IsNumber(s[p]) /\ ~IsNewline(s[p]) /\ p + 1 <= Len(s) /\ IsLetter(s[p + 1])
    THEN [kind |-> "xL", len |-> 1 + Run(s, p + 1, "L")]
    ELSE IF IsNumber(s[p]) THEN [kind |-> "N", len |-> Min(3, Run(s, p, "N"))]
    ELSE IF IsPunct(s[p]) THEN PunctPiece(s, p, 0, Run(s, p, "P"))
    ELSE IF s[p] = " " /\ p + 1 <= Len(s) /\ IsPunct(s[p + 1])
    THEN PunctPiece(s, p, 1, Run(s, p + 1, "P"))
    ELSE SpacePiece(s, p, Run(s, p, "S"), LastNewline(s, p, Run(s, p, "S")))

\* the tokens of one piece
RECURSIVE Singles(_)
Singles(s) == IF s = <<>> THEN <<>> ELSE <<<<Head(s)>>>> \o Singles(Tail(s))

PieceTokens(kind, piece) ==
    IF kind = "L" THEN Singles(piece)
    ELSE IF kind = "xL"
    THEN <<SubSeq(piece, 1, 2)>> \o Singles(Slice(piece, 3, Len(piece)))
    ELSE <<piece>>

RECURSIVE EncodeFrom(_, _)

\* the tokens of the piece at p and of what follows it
EncodePiece(s, p, piece) ==
    PieceTokens(piece.kind, SubSeq(s, p, p + piece.len - 1))
        \o EncodeFrom(s, p + piece.len)

EncodeFrom(s, p) == IF p > Len(s) THEN <<>> ELSE EncodePiece(s, p, PieceAt(s, p))

\* self.encoder.encode(text)
encode(s) == EncodeFrom(s, 1)

\* self.encoder.decode(tokens)
RECURSIVE decode(_)
decode(tokens) == IF tokens = <<>> THEN <<>> ELSE Head(tokens) \o decode(Tail(tokens))

count_tokens(s) == Len(encode(s))

----------------------------------------------------------------------------
(* re.split with one capturing group                                       *)

\* length of the match of  제\d+조(?:의\d+)?  at position p of s, 0 if none
\* d digits follow 제 at p; q is where 조 must stand; e digits follow 의
ArticleMatchWith(s, p, d, q, e) ==
    IF s[p] = "J" /\ d >= 1 /\ q <= Len(s) /\ s[q] = "C"
    THEN IF q + 1 <= Len(s) /\ s[q + 1] = "U" /\ e >= 1
         THEN d + 2 + 1 + e
         ELSE d + 2
    ELSE 0

ArticleMatch(s, p) ==
    ArticleMatchWith(s, p, Run(s, p + 1, "D"), p + 1 + Run(s, p + 1, "D"),
                     Run(s, p + 3 + Run(s, p + 1, "D"), "D"))

\* length of the match of  [①-⑳]|\d+\.  at position p of s, 0 if none
ClauseMatchWith(s, p, d) ==
    IF IsCircled(s[p]) THEN 1
    ELSE IF d >= 1 /\ p + d <= Len(s) /\ s[p + d] = "." THEN d + 1
    ELSE 0

ClauseMatch(s, p) == ClauseMatchWith(s, p, Run(s, p, "D"))

MatchAt(re, s, p) == IF re = "article" THEN ArticleMatch(s, p) ELSE ClauseMatch(s, p)

\* re.split(r'(...)', s): the texts between the matches and the matches,
\* alternating; from is where the current unmatched stretch began
RECURSIVE SplitFrom(_, _, _, _)

\* m is the length of the match at p, 0 if there is none
SplitAt(re, s, from, p, m) ==
    IF m > 0
    THEN <<Slice(s, from, p - 1), SubSeq(s, p, p + m - 1)>>
             \o SplitFrom(re, s, p + m, p + m)
    ELSE SplitFrom(re, s, from, p + 1)

SplitFrom(re, s, from, p) ==
    IF p > Len(s) THEN <<Slice(s, from, Len(s))>>
    ELSE SplitAt(re, s, from, p, MatchAt(re, s, p))

re_split(re, s) == SplitFrom(re, s, 1, 1)

\* re.match(r'제\d+조(?:의\d+)?$', part)
IsArticle(part) == part # <<>> /\ ArticleMatch(part, 1) = Len(part)

----------------------------------------------------------------------------
(* The splitters.  A splitter returns [raised, chunks]: raised is TRUE     *)
(* when the call ends in an exception (chunks is then not returned), and   *)
(* chunks is the list of {"text": ...} dicts otherwise.                    *)

Chunk(t) == [text |-> t]
Returned(chunks) == [raised |-> FALSE, chunks |-> chunks]
Raised == [raised |-> TRUE, chunks |-> <<>>]

\* the windows tokens[i : i + max_tokens] for i in range(0, len(tokens), max_tokens),
\* max_tokens > 0
RECURSIVE WindowsFrom(_, _, _)
WindowsFrom(tokens, i, max) ==
    IF i >= Len(tokens) THEN <<>>
    ELSE <<Chunk(decode(SubSeq(tokens, i + 1, Min(i + max, Len(tokens)))))>>
             \o WindowsFrom(tokens, i + max, max)

\* windows one token too long: tokens[i : i + max_tokens + 1]
split_by_tokens_long(t, max) ==
    IF max = 0 THEN Raised
    ELSE IF max < 0 THEN Returned(<<>>)
    ELSE Returned(WindowsFrom(encode(t), 0, max + 1))

\* range(0, n, 0) raises ValueError; a negative step gives the empty range
split_by_tokens(t, max) ==
    IF max = 0 THEN Raised
    ELSE IF max < 0 THEN Returned(<<>>)
    ELSE Returned(WindowsFrom(encode(t), 0, max))

\* "if current_chunk.strip() != article: chunks.append(...)"
FlushStripped(chunks, stripped, article) ==
    IF stripped # article THEN Append(chunks, Chunk(stripped)) ELSE chunks

FlushClauses(chunks, cur, article) == FlushStripped(chunks, Strip(cur), article)

\* lines 164-175: the clause alone is over budget; w is what split_by_tokens
\* made of article + " " + part
OversizeClause(st, w, header, header_tokens, article) ==
    IF w.raised THEN [st EXCEPT !.raised = TRUE]
    ELSE [raised |-> FALSE,
          chunks |-> FlushClauses(st.chunks, st.cur, article) \o w.chunks,
          cur |-> header,
          tok |-> header_tokens]

\* lines 179-183: flush, and start a new buffer of tokens new_tokens
NewClauseBuffer(st, new_chunk, new_tokens, article) ==
    [raised |-> FALSE,
     chunks |-> FlushClauses(st.chunks, st.cur, article),
     cur |-> new_chunk,
     tok |-> new_tokens]

\* lines 162-183: a non-blank part of part_tokens tokens
ClauseStep(st, part, part_tokens, header, article, max) ==
    IF part_tokens > max
    THEN OversizeClause(st, split_by_tokens(header \o part, max), header,
                        count_tokens(header), article)
    ELSE IF st.tok + part_tokens <= max
    THEN [st EXCEPT !.cur = @ \o part \o <<" ">>, !.tok = @ + part_tokens]
    ELSE NewClauseBuffer(st, header \o part \o <<" ">>,
                         count_tokens(header \o part \o <<" ">>), article)

\* one iteration of "for part in parts" of _split_by_paragraph
ParagraphStep(st, part, article, max) ==
    IF Strip(part) = <<>> THEN st
    ELSE ClauseStep(st, part, count_tokens(part), article \o <<" ">>, article, max)

RECURSIVE ParagraphLoop(_, _, _, _, _)
ParagraphLoop(st, parts, k, article, max) ==
    IF st.raised \/ k > Len(parts) THEN st
    ELSE ParagraphLoop(ParagraphStep(st, parts[k], article, max), parts, k + 1,
                       article, max)

\* lines 185-188
ParagraphResult(st, article) ==
    IF st.raised THEN Raised
    ELSE Returned(FlushClauses(st.chunks, st.cur, article))

split_by_paragraph(article, content, max) ==
    ParagraphResult(
        ParagraphLoop([raised |-> FALSE, chunks |-> <<>>,
                       cur |-> article \o <<" ">>,
                       tok |-> count_tokens(article \o <<" ">>)],
                      re_split("clause", content), 1, article, max),
        article)

\* "if current_chunk: chunks.append(...)"
Flush(chunks, cur) == IF cur # <<>> THEN Append(chunks, Chunk(cur)) ELSE chunks

\* current_chunk += (" " if current_chunk else "") + t
Joined(cur, t) == IF cur # <<>> THEN cur \o <<" ">> \o t ELSE t

\* a unit that is only packed when it leaves room to spare
FitsStrictly(tok, text_tokens, max) == tok + text_tokens < max

\* "if current_tokens + text_tokens <= max_tokens" (lines 93 and 132)
Fits(tok, text_tokens, max) == tok + text_tokens <= max

\* lines 93-103 and 132-139: t, of t_tokens <= max_tokens tokens, joins the
\* buffer or starts a new one; step is what i advances by
Pack(st, t, t_tokens, max, step) ==
    IF Fits(st.tok, t_tokens, max)
    THEN [st EXCEPT !.cur = Joined(@, t), !.tok = @ + t_tokens, !.i = @ + step]
    ELSE [st EXCEPT !.chunks = Flush(@, st.cur), !.cur = t, !.tok = t_tokens,
                    !.i = @ + step]

\* lines 106-113 and 122-131: flush the buffer and splice in the chunks r of a
\* fallback splitter
Splice(st, r, step) ==
    IF r.raised THEN [st EXCEPT !.raised = TRUE]
    ELSE [st EXCEPT !.chunks = Flush(@, st.cur) \o r.chunks, !.cur = <<>>,
                    !.tok = 0, !.i = @ + step]

\* lines 88-115 for the unit article, content
UnitStep(st, article, content, text_tokens, max) ==
    IF text_tokens <= max
    THEN Pack(st, article \o <<" ">> \o content, text_tokens, max, 2)
    ELSE Splice(st, split_by_paragraph(article, content, max), 2)

\* content = parts[i + 1].strip() if there is a parts[i + 1], else ""
ContentAt(parts, i) == IF i + 1 <= Len(parts) THEN Strip(parts[i + 1]) ELSE <<>>

\* the article branch (lines 81-115) for the unit parts[i], parts[i + 1]
ArticleBranch(st, part, parts, max) ==
    UnitStep(st, part, ContentAt(parts, st.i),
             count_tokens(part \o <<" ">> \o ContentAt(parts, st.i)), max)

\* lines 120-139 for a plain text part of part_tokens tokens
ProseStep(st, part, part_tokens, max) ==
    IF part_tokens > max
    THEN Splice(st, split_by_tokens(part, max), 1)
    ELSE Pack(st, part, part_tokens, max, 1)

\* the plain-text branch (lines 116-141)
ProseBranch(st, part, max) == ProseStep(st, part, count_tokens(part), max)

RECURSIVE ArticleLoop(_, _, _)

\* lines 74-141 for part = parts[i].strip()
PartStep(st, part, parts, max) ==
    IF part = <<>> THEN ArticleLoop([st EXCEPT !.i = @ + 1], parts, max)
    ELSE IF IsArticle(part) THEN ArticleLoop(ArticleBranch(st, part, parts, max), parts, max)
    ELSE ArticleLoop(ProseBranch(st, part, max), parts, max)

\* "while i < len(parts)"; i is 1-based here
ArticleLoop(st, parts, max) ==
    IF st.raised \/ st.i > Len(parts) THEN st
    ELSE PartStep(st, Strip(parts[st.i]), parts, max)

\* lines 143-147
ArticleResult(st) == IF st.raised THEN Raised ELSE Returned(Flush(st.chunks, st.cur))

split_by_article(t, max) ==
    ArticleResult(
        ArticleLoop([raised |-> FALSE, chunks |-> <<>>, cur |-> <<>>, tok |-> 0,
                     i |-> 1],
                    re_split("article", t), max))

----------------------------------------------------------------------------
(* SpecSplit: one call of a splitter on a text and a budget drawn from     *)
(* bounded sets.                                                           *)

Lexemes == { <<"J", "1", "C">>, <<"U", "1">>, <<"o">>, <<"1", ".">>, <<"x">>, <<" ">> }

RECURSIVE Texts(_)
Texts(n) ==
    IF n = 0 THEN { <<>> }
    ELSE LET T == Texts(n - 1) IN T \cup { t \o l : t \in T, l \in Lexemes }

\* the article headers _split_by_paragraph is called with
Headers == { <<"J", "1", "C">>, <<"J", "1", "C", "U", "1">> }

Budgets == 0 .. MaxBudget

\* value of the loop variable before the first iteration
NoBlock == [none |-> TRUE]

NoCall == [op |-> "none", article |-> <<>>, content |-> <<>>]

InitSplit ==
    /\ text \in Texts(MaxLexemes)
    /\ max_tokens \in Budgets
    /\ call = NoCall
    /\ out = Returned(<<>>)
    /\ chunk_size = 0
    /\ overlap = 0
    /\ block = NoBlock
    /\ idx = 0
    /\ all_chunks = <<>>
    /\ chunk_counter = 1
    /\ final_chunks = <<>>
    /\ pc = "split"

PipelineVars == <<chunk_size, overlap, block, idx, all_chunks, chunk_counter,
                  final_chunks, pc>>

CallSplitByTokens ==
    /\ pc = "split" /\ call.op = "none"
    /\ call' = [NoCall EXCEPT !.op = "split_by_tokens"]
    /\ out' = split_by_tokens(text, max_tokens)
    /\ UNCHANGED <<text, max_tokens, PipelineVars>>

CallSplitByArticle ==
    /\ pc = "split" /\ call.op = "none"
    /\ call' = [NoCall EXCEPT !.op = "split_by_article"]
    /\ out' = split_by_article(text, max_tokens)
    /\ UNCHANGED <<text, max_tokens, PipelineVars>>

\* the call of line 109: the unit article + " " + content is over budget and
\* content is a stripped article body
CallSplitByParagraph ==
    /\ pc = "split" /\ call.op = "none"
    /\ \E article \in Headers :
         /\ Len(re_split("article", Strip(text))) = 1
         /\ count_tokens(article \o <<" ">> \o Strip(text)) > max_tokens
         /\ call' = [op |-> "split_by_paragraph", article |-> article,
                     content |-> Strip(text)]
         /\ out' = split_by_paragraph(article, Strip(text), max_tokens)
    /\ UNCHANGED <<text, max_tokens, PipelineVars>>

NextSplit == CallSplitByTokens \/ CallSplitByArticle \/ CallSplitByParagraph

SpecSplit == InitSplit /\ [][NextSplit]_vars

----------------------------------------------------------------------------
(* process_from_unified_json and apply_overlap                             *)

Digit == <<"0", "1", "2", "3", "4", "5", "6", "7", "8", "9">>

\* the decimal digits of n >= 0
RECURSIVE Decimal(_)
Decimal(n) == IF n < 10 THEN <<Digit[n + 1]>> ELSE Decimal(n \div 10) \o <<Digit[(n % 10) + 1]>>

\* zero-padding to a width of at least w
RECURSIVE ZeroPad(_, _)
ZeroPad(ds, w) == IF Len(ds) >= w THEN ds ELSE ZeroPad(<<"0">> \o ds, w)

\* f"chunk_{chunk_counter:05d}"
ChunkId(counter) == <<"chunk_">> \o ZeroPad(Decimal(counter), 5)

\* block.get(key, default)
Get(b, key, default) == IF key \in DOMAIN b THEN b[key] ELSE default

\* the dict of lines 220-229; evaluating it raises KeyError when the block has
\* no doc_id or no doc_name
RaisesKeyError(b) == "doc_id" \notin DOMAIN b \/ "doc_name" \notin DOMAIN b

MakeChunk(counter, chunk_text, b) ==
    [chunk_id |-> ChunkId(counter),
     content |-> chunk_text,
     metadata |-> [doc_id |-> b.doc_id,
                   doc_name |-> b.doc_name,
                   page |-> Get(b, "page", 0),
                   chunk_tokens |-> count_tokens(chunk_text)]]

\* an inner loop that does not advance chunk_counter
BlockChunksSameId(counter, text_chunks, b) ==
    [k \in 1 .. Len(text_chunks) |-> MakeChunk(counter, text_chunks[k].text, b)]

\* the chunks the inner loop (lines 216-231) appends for one block
BlockChunks(counter, text_chunks, b) ==
    [k \in 1 .. Len(text_chunks) |->
        MakeChunk(counter + k - 1, text_chunks[k].text, b)]

\* "\n\n[다음 내용 미리보기]\n"; every syllable is a letter
PreviewHead == <<"\n", "\n", "[", "x", "x", " ", "x", "x", " ", "x", "x", "x", "x",
                 "]", "\n">>
PreviewTail == <<".", ".", ".">>

\* the content of chunk i after lines 252-266
\* lines 262-266: tokens are the tokens of the next chunk's content
WithPreview(content, tokens, ov) ==
    IF Len(tokens) > ov
    THEN content \o PreviewHead \o decode(SubSeq(tokens, 1, ov)) \o PreviewTail
    ELSE content

\* a preview taken from the successor's content after the successor got its
\* own preview
RECURSIVE OverlapContentChained(_, _, _)
OverlapContentChained(chunks, i, ov) ==
    IF i < Len(chunks) /\ chunks[i + 1].metadata.doc_id = chunks[i].metadata.doc_id
    THEN WithPreview(chunks[i].content,
                     encode(OverlapContentChained(chunks, i + 1, ov)), ov)
    ELSE chunks[i].content

OverlapContent(chunks, i, ov) ==
    IF i < Len(chunks) /\ chunks[i + 1].metadata.doc_id = chunks[i].metadata.doc_id
    THEN WithPreview(chunks[i].content, encode(chunks[i + 1].content), ov)
    ELSE chunks[i].content

\* a dict that carries the chunk_tokens of the chunk it was made from
NewChunkStale(chunk, content, has_overlap) ==
    [chunk_id |-> chunk.chunk_id,
     content |-> content,
     metadata |-> [doc_id |-> chunk.metadata.doc_id,
                   doc_name |-> chunk.metadata.doc_name,
                   page |-> chunk.metadata.page,
                   has_overlap |-> has_overlap,
                   chunk_tokens |-> chunk.metadata.chunk_tokens]]

\* the dict of lines 269-277
NewChunk(chunk, content, has_overlap) ==
    [chunk_id |-> chunk.chunk_id,
     content |-> content,
     metadata |-> [doc_id |-> chunk.metadata.doc_id,
                   doc_name |-> chunk.metadata.doc_name,
                   page |-> chunk.metadata.page,
                   has_overlap |-> has_overlap,
                   chunk_tokens |-> count_tokens(content)]]

OverlapChunk(chunks, i, ov) ==
    NewChunk(chunks[i], OverlapContent(chunks, i, ov), i < Len(chunks))

\* apply_overlap without the early return of lines 246-247
apply_overlap_always(chunks, ov) ==
    [i \in 1 .. Len(chunks) |-> OverlapChunk(chunks, i, ov)]

apply_overlap(chunks, ov) ==
    IF chunks = <<>> \/ ov = 0 THEN chunks
    ELSE [i \in 1 .. Len(chunks) |-> OverlapChunk(chunks, i, ov)]

----------------------------------------------------------------------------
(* Spec: one run of process_from_unified_json.  The blocks of the input    *)
(* file are drawn one per loop iteration.                                  *)

Docs == {"doc_001", "doc_002"}
DocName(d) == IF d = "doc_001" THEN "a.pdf" ELSE "b.pdf"
\* the texts of the blocks: blank, prose of one and of two tokens, an article
BlockTexts == { <<" ">>, <<"x">>, <<"U", "1">>, <<"J", "1", "C", "x">> }
Required == {"doc_id", "doc_name", "page", "text"}

Pages == {1}

FullBlocks ==
    { [doc_id |-> d, doc_name |-> DocName(d), page |-> p, text |-> t] :
        d \in Docs, p \in Pages, t \in BlockTexts }

Without(b, key) == [f \in DOMAIN b \ {key} |-> b[f]]

\* well-formed blocks and blocks that lack one required field
Blocks == FullBlocks \cup { Without(b, key) : b \in FullBlocks, key \in Required }

Init ==
    /\ chunk_size \in 0 .. MaxChunkSize
    /\ overlap \in 0 .. MaxOverlap
    /\ block = NoBlock
    /\ idx = 0
    /\ all_chunks = <<>>
    /\ chunk_counter = 1
    /\ final_chunks = <<>>
    /\ pc = "loop"
    /\ text = <<>>
    /\ max_tokens = 0
    /\ call = NoCall
    /\ out = Returned(<<>>)

SplitVars == <<text, max_tokens, call, out>>

\* lines 216-231 for block b, split into r; an exception ends the run
Assemble(b, r) ==
    IF r.raised \/ (r.chunks # <<>> /\ RaisesKeyError(b))
    THEN /\ pc' = "raised"
         /\ UNCHANGED <<all_chunks, chunk_counter>>
    ELSE /\ pc' = "loop"
         /\ all_chunks' = all_chunks \o BlockChunks(chunk_counter, r.chunks, b)
         /\ chunk_counter' = chunk_counter + Len(r.chunks)

\* one iteration of "for idx, block in enumerate(text_blocks, 1)"
ProcessBlock ==
    /\ pc = "loop"
    /\ idx < MaxBlocks
    /\ \E b \in Blocks :
         /\ block' = b
         /\ idx' = idx + 1
         /\ IF "text" \notin DOMAIN b
            THEN /\ pc' = "raised"
                 /\ UNCHANGED <<all_chunks, chunk_counter>>
            ELSE Assemble(b, split_by_article(b.text, chunk_size))
    /\ UNCHANGED <<chunk_size, overlap, final_chunks, SplitVars>>

\* the loop is over: lines 236-242
Finish ==
    /\ pc = "loop"
    /\ final_chunks' = apply_overlap(all_chunks, overlap)
    /\ pc' = "done"
    /\ UNCHANGED <<chunk_size, overlap, block, idx, all_chunks, chunk_counter,
                   SplitVars>>

Next == ProcessBlock \/ Finish

Spec == Init /\ [][Next]_vars

----------------------------------------------------------------------------
(* Helpers of the properties                                               *)

IsPrefix(a, b) == Len(a) <= Len(b) /\ SubSeq(b, 1, Len(a)) = a

IsInfix(a, b) == \E k \in 0 .. Len(b) - Len(a) : SubSeq(b, k + 1, k + Len(a)) = a

NotSpace(c) == ~IsSpace(c)
NonBlank(s) == SelectSeq(s, NotSpace)

RECURSIVE IsSubsequence(_, _)
IsSubsequence(a, b) ==
    IF a = <<>> THEN TRUE
    ELSE IF b = <<>> THEN FALSE
    ELSE IF Head(a) = Head(b) THEN IsSubsequence(Tail(a), Tail(b))
    ELSE IsSubsequence(a, Tail(b))

\* the chunk texts one after the other
RECURSIVE ConcatTexts(_)
ConcatTexts(chunks) ==
    IF chunks = <<>> THEN <<>> ELSE Head(chunks).text \o ConcatTexts(Tail(chunks))

\* the token sequences of the chunk texts one after the other
RECURSIVE ConcatTokens(_)
ConcatTokens(chunks) ==
    IF chunks = <<>> THEN <<>>
    ELSE encode(Head(chunks).text) \o ConcatTokens(Tail(chunks))

Called(op) == call.op = op /\ ~out.raised

\* the units of a text: for every article marker, header + " " + body
UnitsOf(parts) ==
    [k \in 1 .. (Len(parts) - 1) \div 2 |->
        parts[2 * k] \o <<" ">> \o Strip(parts[2 * k + 1])]

\* the prose before the first marker, if any, and the units
Segments(t) ==
    LET parts == re_split("article", t)
        prose == Strip(parts[1])
    IN  (IF prose = <<>> THEN <<>> ELSE <<prose>>) \o UnitsOf(parts)

\* left-to-right packing of segments by the token count of the packed text
RECURSIVE PackFrom(_, _, _, _)
PackFrom(segs, k, cur, max) ==
    IF k > Len(segs) THEN <<Chunk(cur)>>
    ELSE IF count_tokens(cur \o <<" ">> \o segs[k]) <= max
    THEN PackFrom(segs, k + 1, cur \o <<" ">> \o segs[k], max)
    ELSE <<Chunk(cur)>> \o PackFrom(segs, k + 1, segs[k], max)

GreedyPack(segs, max) == IF segs = <<>> THEN <<>> ELSE PackFrom(segs, 2, segs[1], max)

----------------------------------------------------------------------------
(* Properties of the splitters, checked under SpecSplit                    *)

\* C1 (does not hold of the code): for max_tokens >= 1, every chunk that
\* split_by_article returns, from its own buffer or from the splitters it
\* falls back to, has a token count of at most max_tokens.
C1_TokenBudget ==
    (Called("split_by_article") /\ max_tokens >= 1)
        => \A k \in 1 .. Len(out.chunks) :
               count_tokens(out.chunks[k].text) <= max_tokens

\* C4 (does not hold of the code): _split_by_paragraph, called with an article
\* that is over budget and whose header fits the budget, returns at least two
\* chunks and every one of them begins with the article header.
C4_HeaderOnEveryChunk ==
    (Called("split_by_paragraph")
        /\ count_tokens(call.article \o <<" ">>) <= max_tokens)
        => /\ Len(out.chunks) >= 2
           /\ \A k \in 1 .. Len(out.chunks) :
                  IsPrefix(call.article, out.chunks[k].text)

\* C5 (does not hold of the code): for max_tokens >= 1, the non-blank
\* characters of the text are found, in their order, in the chunks of
\* split_by_article read in chunk order: nothing is dropped or reordered.
C5_NothingDropped ==
    (Called("split_by_article") /\ max_tokens >= 1)
        => IsSubsequence(NonBlank(text), NonBlank(ConcatTexts(out.chunks)))

\* C8: a unit that fits max_tokens is found whole in one chunk of
\* split_by_article, and when every segment of the text fits, the chunks are
\* the left-to-right greedy packing of the segments: a segment joins the
\* current chunk whenever the packed text still fits max_tokens.
C8_GreedyPacking ==
    Called("split_by_article")
        => LET segs == Segments(text)
               units == UnitsOf(re_split("article", text))
           IN /\ \A k \in 1 .. Len(units) :
                     count_tokens(units[k]) <= max_tokens
                         => \E c \in 1 .. Len(out.chunks) :
                                IsInfix(units[k], out.chunks[c].text)
              /\ (\A k \in 1 .. Len(segs) : count_tokens(segs[k]) <= max_tokens)
                     => out.chunks = GreedyPack(segs, max_tokens)

\* two articles that fit together came out as one chunk holding both
C8_Witness ==
    /\ Called("split_by_article")
    /\ Len(UnitsOf(re_split("article", text))) = 2
    /\ Len(Segments(text)) = 2
    /\ Len(out.chunks) = 1
    /\ out.chunks[1].text = Segments(text)[1] \o <<" ">> \o Segments(text)[2]

\* the k-th window of max tokens of a token sequence
Window(tokens, k, max) ==
    SubSeq(tokens, (k - 1) * max + 1, Min(k * max, Len(tokens)))

\* what C9 says of one call of split_by_tokens: r holds the decoded windows
WindowsOf(t, max, r) ==
    LET tokens == encode(t)
        n == Len(tokens)
        m == Len(r.chunks)
    IN  /\ ~r.raised
        /\ m = (n + max - 1) \div max
        /\ \A k \in 1 .. m :
               /\ r.chunks[k].text = decode(Window(tokens, k, max))
               /\ Len(Window(tokens, k, max)) >= 1
               /\ k < m => Len(Window(tokens, k, max)) = max
        /\ ConcatTexts(r.chunks) = t

\* C9 (as amended): for every text and every max_tokens >= 1, split_by_tokens
\* does not raise and returns ceil(n / max_tokens) windows, all of exactly
\* max_tokens tokens except the last, which has between 1 and max_tokens, and
\* the windows' tokens in order are the tokens of the text.
C9_Windows ==
    (call.op = "split_by_tokens" /\ max_tokens >= 1)
        => WindowsOf(text, max_tokens, out)

\* C9 as stated, for every max_tokens (does not hold: max_tokens = 0 raises)
C9_WindowsAnyBudget ==
    call.op = "split_by_tokens" => WindowsOf(text, max_tokens, out)

\* a text cut into several windows, the last one shorter than the others
C9_Witness ==
    /\ Called("split_by_tokens")
    /\ max_tokens >= 2
    /\ Len(out.chunks) >= 2
    /\ count_tokens(text) % max_tokens # 0

----------------------------------------------------------------------------
(* Properties of a run, checked under Spec                                 *)

HasOverlap(chunk) ==
    "has_overlap" \in DOMAIN chunk.metadata /\ chunk.metadata.has_overlap

\* every chunk carries a page number that a block supplied
PagesFromBlocks == \A k \in 1 .. Len(all_chunks) : all_chunks[k].metadata.page \in Pages

\* apply_overlap ran its loop, overlap > 0 on a non-empty chunk list, in a run
\* over blocks that have their page
Overlapped == pc = "done" /\ overlap > 0 /\ all_chunks # <<>> /\ PagesFromBlocks

PreviewAppended(i) == final_chunks[i].content # all_chunks[i].content

LastOfDoc(i) ==
    \A j \in i + 1 .. Len(all_chunks) :
        all_chunks[j].metadata.doc_id # all_chunks[i].metadata.doc_id

\* C2 (does not hold of the code): after apply_overlap with overlap > 0,
\* has_overlap is true exactly for the chunks that got a preview, and those
\* are exactly the chunks that are not the last of their doc_id.
C2_HasOverlapIffPreview ==
    Overlapped
        => \A i \in 1 .. Len(final_chunks) :
               /\ HasOverlap(final_chunks[i]) <=> PreviewAppended(i)
               /\ PreviewAppended(i) <=> ~LastOfDoc(i)

\* the successor of chunk i exists, is of the same document and has at least
\* overlap tokens
PreviewDue(i) ==
    /\ i < Len(all_chunks)
    /\ all_chunks[i + 1].metadata.doc_id = all_chunks[i].metadata.doc_id
    /\ count_tokens(all_chunks[i + 1].content) >= overlap

\* C3 (does not hold of the code): chunk i is extended with the decoded
\* first overlap tokens of chunk i+1 exactly when chunk i+1 exists, has the
\* same doc_id and has at least overlap tokens; has_overlap says whether it was.
C3_OverlapCorrect ==
    Overlapped
        => \A i \in 1 .. Len(final_chunks) :
               /\ HasOverlap(final_chunks[i]) <=> PreviewDue(i)
               /\ final_chunks[i].content =
                      IF PreviewDue(i)
                      THEN all_chunks[i].content \o PreviewHead
                               \o decode(SubSeq(encode(all_chunks[i + 1].content),
                                                1, overlap))
                               \o PreviewTail
                      ELSE all_chunks[i].content

\* the number a chunk identifier carries
DigitValue(c) == CHOOSE d \in 0 .. 9 : Digit[d + 1] = c

RECURSIVE NumberOf(_)
NumberOf(ds) ==
    IF ds = <<>> THEN 0 ELSE 10 * NumberOf(SubSeq(ds, 1, Len(ds) - 1)) + DigitValue(ds[Len(ds)])

IdNumber(id) == NumberOf(Tail(id))

\* C6: in every run the k-th chunk carries identifier number k, written as
\* "chunk_" and five digits, and apply_overlap keeps the identifiers.
C6_SequentialIds ==
    /\ \A k \in 1 .. Len(all_chunks) :
           /\ Head(all_chunks[k].chunk_id) = "chunk_"
           /\ Len(all_chunks[k].chunk_id) = 6
           /\ IdNumber(all_chunks[k].chunk_id) = k
    /\ pc = "done"
           => /\ Len(final_chunks) = Len(all_chunks)
              /\ \A k \in 1 .. Len(final_chunks) :
                     final_chunks[k].chunk_id = all_chunks[k].chunk_id

\* a run with overlap injection, two blocks and at least three chunks
C6_Witness ==
    pc = "done" /\ overlap > 0 /\ idx = 2 /\ Len(final_chunks) >= 3

\* C7: with overlap = 0, or with no chunks, apply_overlap returns its input
\* as it is and no chunk of the result has has_overlap = true.
C7_NoOverlapUnchanged ==
    (pc = "done" /\ (overlap = 0 \/ all_chunks = <<>>))
        => /\ final_chunks = all_chunks
           /\ \A i \in 1 .. Len(final_chunks) : ~HasOverlap(final_chunks[i])

\* overlap = 0 on two chunks of one document
C7_Witness ==
    /\ pc = "done" /\ overlap = 0
    /\ Len(final_chunks) >= 2
    /\ final_chunks[1].metadata.doc_id = final_chunks[2].metadata.doc_id

\* C10 (does not hold of the code): a block that lacks a required field makes
\* the run fail, so that no chunk carries a value the block did not supply:
\* every chunk's page is the page of a block.
C10_NoMadeUpField == PagesFromBlocks

\* C11: in the value process_from_unified_json returns, with overlap zero or
\* positive, every chunk's metadata.chunk_tokens is the token count of that
\* chunk's final content: it is counted again when a preview is appended.
C11_ChunkTokensOfFinalContent ==
    pc = "done"
        => \A i \in 1 .. Len(final_chunks) :
               final_chunks[i].metadata.chunk_tokens
                   = count_tokens(final_chunks[i].content)

\* a chunk got a preview and its chunk_tokens is no longer what the assembling
\* loop had counted
C11_Witness ==
    /\ pc = "done" /\ overlap > 0
    /\ \E i \in 1 .. Len(final_chunks) :
           /\ PreviewAppended(i)
           /\ final_chunks[i].metadata.chunk_tokens
                  > all_chunks[i].metadata.chunk_tokens

\* tokens[:ov]
FirstTokens(tokens, ov) == SubSeq(tokens, 1, Min(ov, Len(tokens)))

\* the preview of the first ov tokens of a content
PreviewOf(content, ov) ==
    PreviewHead \o decode(FirstTokens(encode(content), ov)) \o PreviewTail

\* chunk i of the input has no chunk of its document right after it
NoSuccessor(i) ==
    \/ i = Len(all_chunks)
    \/ all_chunks[i + 1].metadata.doc_id # all_chunks[i].metadata.doc_id

\* what apply_overlap leaves alone of chunk i
FrameOfChunk(i) ==
    /\ final_chunks[i].chunk_id = all_chunks[i].chunk_id
    /\ final_chunks[i].metadata.doc_id = all_chunks[i].metadata.doc_id
    /\ final_chunks[i].metadata.doc_name = all_chunks[i].metadata.doc_name
    /\ final_chunks[i].metadata.page = all_chunks[i].metadata.page
    /\ IsPrefix(all_chunks[i].content, final_chunks[i].content)
    /\ NoSuccessor(i) => final_chunks[i].content = all_chunks[i].content
    /\ PreviewAppended(i)
           => /\ ~NoSuccessor(i)
              /\ final_chunks[i].content
                     = all_chunks[i].content
                           \o PreviewOf(all_chunks[i + 1].content, overlap)

\* the returned list is the input list, chunk for chunk, within the frame
FrameOfResult ==
    (pc = "done" /\ overlap > 0)
        => /\ Len(final_chunks) = Len(all_chunks)
           /\ \A i \in 1 .. Len(final_chunks) : FrameOfChunk(i)

\* the call of apply_overlap leaves the chunks of its input as they were
InputKept == pc' = "done" => all_chunks' = all_chunks

\* C12: apply_overlap with overlap > 0 returns as many chunks as it was given,
\* in the same order; every chunk keeps its chunk_id, doc_id, doc_name and
\* page; the input content is a prefix of the output content and equal to it
\* when no preview is appended, as for a chunk with no successor or the last
\* of its document; a preview is the first overlap tokens of the successor's
\* input content; and the input chunks are not modified.
C12_OverlapFrame == []FrameOfResult /\ [][InputKept]_vars

\* three chunks of one document: the first is left alone although it has a
\* successor, the second gets a preview, the third has no successor
C12_Witness ==
    /\ pc = "done" /\ overlap > 0
    /\ Len(final_chunks) = 3
    /\ ~NoSuccessor(1) /\ ~PreviewAppended(1)
    /\ PreviewAppended(2)
    /\ NoSuccessor(3) /\ ~PreviewAppended(3)

====
